---------------------------- MODULE Spec2Model ----------------------------
(***************************************************************************)
(* Model of mavehgvs/position.py: the VariantPosition class.               *)
(*                                                                         *)
(* A Python str is a sequence of one-character strings.  An Optional[T]    *)
(* value is None (the empty tuple) or Some(x) (a one-element tuple), so    *)
(* that "absent" is a value of its own, equal only to itself.  A method's  *)
(* return value is wrapped the same way: Return(x) for an explicit         *)
(* `return x`, None when the body falls off its end.                       *)
(***************************************************************************)
EXTENDS Integers, Sequences, FiniteSets, TLC

VARIABLES
    self_str,   \* the pos_str argument of the first constructor call
    other_str,  \* the pos_str argument of the second constructor call
    self,       \* outcome of VariantPosition(self_str)
    other,      \* outcome of VariantPosition(other_str)
    ret,        \* the last method call on (self, other) and what it returned
    todo,       \* position strings the caller has not parsed yet
    lst         \* the caller's list of constructed positions

vars == <<self_str, other_str, self, other, ret, todo, lst>>

---------------------------------------------------------------------------
\* Bounds of the model.

\* Longest input string handed to the constructor.
MaxLen == 4

\* Characters the input strings are drawn from: two digits (one of them the
\* zero the grammar restricts), both sign tokens, the 3' UTR symbol and a
\* character that is in no shape.
Alphabet == {"0", "1", "+", "-", "*", "a"}

Strings == UNION {[1..n -> Alphabet] : n \in 0..MaxLen}

---------------------------------------------------------------------------
\* Python values.

None == <<>>
Some(x) == <<x>>
Return(x) == <<x>>
Val(o) == o[1]

\* bool(x) of a returned value: None and False are falsy.
Truthy(r) == r = Return(TRUE)

Digits == {"0", "1", "2", "3", "4", "5", "6", "7", "8", "9"}

DigitValue(c) ==
    CASE c = "0" -> 0 [] c = "1" -> 1 [] c = "2" -> 2 [] c = "3" -> 3
      [] c = "4" -> 4 [] c = "5" -> 5 [] c = "6" -> 6 [] c = "7" -> 7
      [] c = "8" -> 8 [] c = "9" -> 9

\* int(x) of a string of decimal digits.
RECURSIVE int(_)
int(x) ==
    IF x = <<>> THEN 0
    ELSE int(SubSeq(x, 1, Len(x) - 1)) * 10 + DigitValue(x[Len(x)])

\* `c in s`
Contains(c, s) == \E i \in 1..Len(s) : s[i] = c

\* s[1:]
Slice1(s) == SubSeq(s, 2, Len(s))

\* s.startswith(c)
StartsWith(s, c) == Len(s) >= 1 /\ s[1] = c

\* s.split(sep): the pieces of s between the occurrences of sep.
RECURSIVE Split(_, _)
Split(s, sep) ==
    IF ~Contains(sep, s) THEN <<s>>
    ELSE LET k == CHOOSE i \in 1..Len(s) :
                      s[i] = sep /\ \A j \in 1..(i - 1) : s[j] # sep
         IN  <<SubSeq(s, 1, k - 1)>> \o Split(SubSeq(s, k + 1, Len(s)), sep)

---------------------------------------------------------------------------
\* The grammar.

\* mavehgvs.patterns.shared.pos: a digit run with no leading zero, hence no
\* bare zero.
IsPos(s) ==
    /\ Len(s) >= 1
    /\ s[1] \in Digits \ {"0"}
    /\ \A i \in 1..Len(s) : s[i] \in Digits

\* {pos}[+-]{pos}
IsPosIntron(s) ==
    \E k \in 1..Len(s) :
        /\ s[k] \in {"+", "-"}
        /\ IsPos(SubSeq(s, 1, k - 1))
        /\ IsPos(SubSeq(s, k + 1, Len(s)))

\* [*-]{pos}
IsPosUtr(s) == Len(s) >= 1 /\ s[1] \in {"*", "-"} /\ IsPos(Slice1(s))

\* [*-]{pos}[+-]{pos}
IsPosUtrIntron(s) == Len(s) >= 1 /\ s[1] \in {"*", "-"} /\ IsPosIntron(Slice1(s))

\* VariantPosition._fullmatch(pos_str): the alternatives of pos_extended are
\* tried in order against the whole string.  The result is None, or Some of
\* the match's groupdict(), which holds the string under the alternative
\* that matched and None under the others.
Fullmatch(s) ==
    LET g == [position |-> None, position_intron |-> None,
              position_utr |-> None, position_utr_intron |-> None]
    IN  IF IsPos(s) THEN Some([g EXCEPT !.position = Some(s)])
        ELSE IF IsPosIntron(s) THEN Some([g EXCEPT !.position_intron = Some(s)])
        ELSE IF IsPosUtr(s) THEN Some([g EXCEPT !.position_utr = Some(s)])
        ELSE IF IsPosUtrIntron(s) THEN Some([g EXCEPT !.position_utr_intron = Some(s)])
        ELSE None

---------------------------------------------------------------------------
\* The constructor.

\* The object before __init__ has run (no constructor call yet).
Unset ==
    [kind |-> "unset", position |-> None, intronic_position |-> None,
     utr |-> None, utr_position |-> None, msg |-> None]

\* A constructor call that raised exception `kind` with message `msg`.
Raised(kind, msg) == [Unset EXCEPT !.kind = kind, !.msg = Some(msg)]

\* The four attributes after lines 53-56.
Fresh == [Unset EXCEPT !.kind = "position"]

\* `x, y = (int(p) for p in s.split(sep))`: the two integers, or the
\* ValueError of an unpacking that does not find exactly two values.
SplitInts(s, sep) ==
    LET parts == Split(s, sep)
    IN  IF Len(parts) = 2 THEN Some(<<int(parts[1]), int(parts[2])>>) ELSE None

UnpackError == Raised("ValueError", <<"unpack">>)

\* VariantPosition.__init__(pos_str)
VariantPosition(pos_str) ==
    LET m == Fullmatch(pos_str)
        gdict == Val(m)
    IN
    \* None.groupdict() raises AttributeError, re-raised as ValueError
    IF m = None
    THEN Raised("ValueError", <<"invalid variant position string", pos_str>>)
    ELSE IF gdict.position # None
    THEN [Fresh EXCEPT !.position = Some(int(Val(gdict.position)))]
    ELSE IF gdict.position_intron # None
    THEN LET g == Val(gdict.position_intron) IN
         IF Contains("+", g)
         THEN LET xs == SplitInts(g, "+") IN
              IF xs = None THEN UnpackError
              ELSE [Fresh EXCEPT !.position = Some(Val(xs)[1]),
                                 !.intronic_position = Some(Val(xs)[2])]
         ELSE IF Contains("-", g)
         THEN LET xs == SplitInts(g, "-") IN
              IF xs = None THEN UnpackError
              ELSE [Fresh EXCEPT !.position = Some(Val(xs)[1]),
                                 !.intronic_position = Some(Val(xs)[2] * (-1))]
         ELSE Raised("ValueError", <<"unexpected intronic position separator">>)
    ELSE IF gdict.position_utr # None
    THEN LET g == Val(gdict.position_utr) IN
         IF StartsWith(g, "*")
         THEN [Fresh EXCEPT !.utr = Some("3p"),
                            !.utr_position = Some(int(Slice1(g)))]
         ELSE IF StartsWith(g, "-")
         THEN [Fresh EXCEPT !.utr = Some("5p"),
                            !.utr_position = Some(int(Slice1(g)))]
         ELSE Raised("ValueError", <<"unexpected UTR symbol">>)
    ELSE IF gdict.position_utr_intron # None
    THEN LET g == Val(gdict.position_utr_intron)
             u == IF StartsWith(g, "*") THEN Some("3p")
                  ELSE IF StartsWith(g, "-") THEN Some("5p")
                  ELSE None
         IN
         IF u = None THEN Raised("ValueError", <<"unexpected UTR symbol">>)
         ELSE IF Contains("+", Slice1(g))
         THEN LET xs == SplitInts(Slice1(g), "+") IN
              IF xs = None THEN UnpackError
              ELSE [Fresh EXCEPT !.utr = u,
                                 !.utr_position = Some(Val(xs)[1]),
                                 !.intronic_position = Some(Val(xs)[2])]
         \* line 94 subscripts gdict["position_intron"], which is None in
         \* this branch: None[1:] raises TypeError
         ELSE IF gdict.position_intron = None
         THEN Raised("TypeError", <<"'NoneType' object is not subscriptable">>)
         ELSE IF Contains("-", Slice1(Val(gdict.position_intron)))
         THEN LET xs == SplitInts(Slice1(g), "-") IN
              IF xs = None THEN UnpackError
              ELSE [Fresh EXCEPT !.utr = u,
                                 !.utr_position = Some(Val(xs)[1]),
                                 !.intronic_position = Some(Val(xs)[2] * (-1))]
         ELSE Raised("ValueError", <<"unexpected intronic position separator">>)
    ELSE Raised("ValueError", <<"unexpected position format">>)

---------------------------------------------------------------------------
\* Classification predicates.

is_utr(p) == IF p.utr # None THEN Return(TRUE) ELSE Return(FALSE)

is_intronic(p) == IF p.intronic_position # None THEN Return(TRUE) ELSE Return(FALSE)

is_extended(p) == Return(Truthy(is_intronic(p)) \/ Truthy(is_utr(p)))

---------------------------------------------------------------------------
\* Adjacency.

\* abs(x)
abs(x) == IF x < 0 THEN -x ELSE x

\* is_adjacent with the abs() of line 164 left out.
is_adjacent_no_abs(a, b) ==
    IF ~Truthy(is_extended(a)) /\ ~Truthy(is_extended(b))
    THEN IF Val(a.position) - Val(b.position) = 1
         THEN Return(TRUE)
         ELSE Return(FALSE)
    ELSE None

\* VariantPosition.is_adjacent(self, other): the else branch is `pass`, so
\* the call on an extended position returns None.
is_adjacent(a, b) ==
    IF ~Truthy(is_extended(a)) /\ ~Truthy(is_extended(b))
    THEN IF abs(Val(a.position) - Val(b.position)) = 1
         THEN Return(TRUE)
         ELSE Return(FALSE)
    ELSE None

---------------------------------------------------------------------------
\* Ordering and equality.

\* intron_lt with the comparison of line 213 turned around.
intron_lt_reversed(a, b) ==
    IF a.intronic_position = b.intronic_position THEN Return(FALSE)
    ELSE IF a.intronic_position = None
    THEN Return(Val(b.intronic_position) < 0)
    ELSE IF b.intronic_position = None
    THEN Return(Val(a.intronic_position) < 0)
    ELSE Return(Val(a.intronic_position) > Val(b.intronic_position))

\* intron_lt(a, b), the function nested in __lt__
intron_lt(a, b) ==
    IF a.intronic_position = b.intronic_position THEN Return(FALSE)
    ELSE IF a.intronic_position = None
    THEN Return(Val(b.intronic_position) < 0)
    ELSE IF b.intronic_position = None
    THEN Return(Val(a.intronic_position) < 0)
    ELSE Return(Val(a.intronic_position) < Val(b.intronic_position))

\* __lt__ with `and` for the `or` of line 227.
lt_and_for_or(a, b) ==
    IF a.utr = b.utr
    THEN IF a.utr # None
         THEN IF a.utr_position # b.utr_position
              THEN Return(Val(a.utr_position) < Val(b.utr_position))
              ELSE intron_lt(a, b)
         ELSE IF a.position # b.position
              THEN Return(Val(a.position) < Val(b.position))
              ELSE intron_lt(a, b)
    ELSE IF a.utr = Some("5p") /\ b.utr = Some("3p") THEN Return(TRUE)
    ELSE IF a.utr = Some("3p") \/ b.utr = Some("5p") THEN Return(FALSE)
    ELSE None

\* VariantPosition.__lt__(self, other)
lt(a, b) ==
    IF a.utr = b.utr
    THEN IF a.utr # None
         THEN IF a.utr_position # b.utr_position
              THEN Return(Val(a.utr_position) < Val(b.utr_position))
              ELSE intron_lt(a, b)
         ELSE IF a.position # b.position
              THEN Return(Val(a.position) < Val(b.position))
              ELSE intron_lt(a, b)
    ELSE IF a.utr = Some("5p") \/ b.utr = Some("3p") THEN Return(TRUE)
    ELSE IF a.utr = Some("3p") \/ b.utr = Some("5p") THEN Return(FALSE)
    ELSE None

\* The 4-tuple that __eq__ and __ne__ compare.
FieldTuple(p) == <<p.position, p.intronic_position, p.utr, p.utr_position>>

\* VariantPosition.__eq__(self, other)
eq(a, b) == Return(FieldTuple(a) = FieldTuple(b))

\* VariantPosition.__ne__(self, other)
ne(a, b) == Return(FieldTuple(a) # FieldTuple(b))

\* The operators functools.total_ordering adds to a class that defines
\* __lt__: each calls __lt__ once and combines its result.
\* __gt__: not (a < b) and a != b
gt(a, b) == Return(~Truthy(lt(a, b)) /\ Truthy(ne(a, b)))

\* __le__: (a < b) or a == b
le(a, b) == IF Truthy(lt(a, b)) THEN lt(a, b) ELSE eq(a, b)

\* __ge__: not (a < b)
ge(a, b) == Return(~Truthy(lt(a, b)))

---------------------------------------------------------------------------
\* The calls a client makes.

NoCall == [op |-> "none", val |-> None]

\* self = VariantPosition(self_str)
ConstructSelf ==
    /\ self.kind = "unset"
    /\ self' = VariantPosition(self_str)
    /\ UNCHANGED <<self_str, other_str, other, ret, todo, lst>>

\* other = VariantPosition(other_str)
ConstructOther ==
    /\ other.kind = "unset"
    /\ other' = VariantPosition(other_str)
    /\ UNCHANGED <<self_str, other_str, self, ret, todo, lst>>

\* self.is_utr()
CallIsUtr ==
    /\ self.kind = "position"
    /\ ret' = [op |-> "is_utr", val |-> is_utr(self)]
    /\ UNCHANGED <<self_str, other_str, self, other, todo, lst>>

\* self.is_intronic()
CallIsIntronic ==
    /\ self.kind = "position"
    /\ ret' = [op |-> "is_intronic", val |-> is_intronic(self)]
    /\ UNCHANGED <<self_str, other_str, self, other, todo, lst>>

\* self.is_extended()
CallIsExtended ==
    /\ self.kind = "position"
    /\ ret' = [op |-> "is_extended", val |-> is_extended(self)]
    /\ UNCHANGED <<self_str, other_str, self, other, todo, lst>>

\* Both constructor calls returned an object.
BothConstructed == self.kind = "position" /\ other.kind = "position"

\* self.is_adjacent(other)
CallIsAdjacent ==
    /\ BothConstructed
    /\ ret' = [op |-> "is_adjacent", val |-> is_adjacent(self, other)]
    /\ UNCHANGED <<self_str, other_str, self, other, todo, lst>>

\* self < other
CallLt ==
    /\ BothConstructed
    /\ ret' = [op |-> "__lt__", val |-> lt(self, other)]
    /\ UNCHANGED <<self_str, other_str, self, other, todo, lst>>

\* self == other
CallEq ==
    /\ BothConstructed
    /\ ret' = [op |-> "__eq__", val |-> eq(self, other)]
    /\ UNCHANGED <<self_str, other_str, self, other, todo, lst>>

\* self != other
CallNe ==
    /\ BothConstructed
    /\ ret' = [op |-> "__ne__", val |-> ne(self, other)]
    /\ UNCHANGED <<self_str, other_str, self, other, todo, lst>>

\* self > other
CallGt ==
    /\ BothConstructed
    /\ ret' = [op |-> "__gt__", val |-> gt(self, other)]
    /\ UNCHANGED <<self_str, other_str, self, other, todo, lst>>

\* self <= other
CallLe ==
    /\ BothConstructed
    /\ ret' = [op |-> "__le__", val |-> le(self, other)]
    /\ UNCHANGED <<self_str, other_str, self, other, todo, lst>>

\* self >= other
CallGe ==
    /\ BothConstructed
    /\ ret' = [op |-> "__ge__", val |-> ge(self, other)]
    /\ UNCHANGED <<self_str, other_str, self, other, todo, lst>>

\* lst.append(VariantPosition(s)) for a string s not parsed yet
Collect ==
    \E s \in todo :
        /\ VariantPosition(s).kind = "position"
        /\ lst' = Append(lst, VariantPosition(s))
        /\ todo' = todo \ {s}
        /\ UNCHANGED <<self_str, other_str, self, other, ret>>

---------------------------------------------------------------------------
\* Specifications.

\* The strings that match pos_extended as a whole.
Matching == {s \in Strings : Fullmatch(s) # None}

\* The mixed set of the sorting example.
MixedStrings ==
    { <<"*", "5">>, <<"-", "3">>, <<"1", "0", "0">>,
      <<"1", "0", "0", "-", "2">>, <<"1", "0", "0", "+", "2">> }

\* Parsing: one constructor call on any string, then the predicates.
InitParse ==
    /\ self_str \in Strings
    /\ other_str = <<>>
    /\ self = Unset
    /\ other = Unset
    /\ ret = NoCall
    /\ todo = {}
    /\ lst = <<>>

NextParse == ConstructSelf \/ CallIsUtr \/ CallIsIntronic \/ CallIsExtended

SpecParse == InitParse /\ [][NextParse]_vars

\* Comparison: two constructor calls on strings of the grammar, then the
\* relational operators and the adjacency check on the pair.
Init ==
    /\ self_str \in Matching
    /\ other_str \in Matching
    /\ self = Unset
    /\ other = Unset
    /\ ret = NoCall
    /\ todo = {}
    /\ lst = <<>>

Next ==
    \/ ConstructSelf
    \/ ConstructOther
    \/ CallIsAdjacent
    \/ CallLt
    \/ CallEq
    \/ CallNe
    \/ CallGt
    \/ CallLe
    \/ CallGe

Spec == Init /\ [][Next]_vars

\* Sorting: the caller parses the mixed set in any order into a list.
InitSort ==
    /\ self_str = <<>>
    /\ other_str = <<>>
    /\ self = Unset
    /\ other = Unset
    /\ ret = NoCall
    /\ todo = MixedStrings
    /\ lst = <<>>

NextSort == Collect

SpecSort == InitSort /\ [][NextSort]_vars

---------------------------------------------------------------------------
\* Reference definitions the properties are stated with: the four grammar
\* shapes and their field derivation, read off the input string alone.

Signs == {"+", "-"}
UtrSymbols == {"*", "-"}

\* A digit run: decimal digits, the first one not zero.
RefRun(s) == s # <<>> /\ s[1] # "0" /\ \A i \in 1..Len(s) : s[i] \in Digits

\* Place of the sign token when s, from character `from` on, is
\* <run> <sign> <run>; 0 when it is not.
RefSignAt(s, from) ==
    LET ks == {k \in (from + 1)..(Len(s) - 1) :
                  /\ s[k] \in Signs
                  /\ RefRun(SubSeq(s, from, k - 1))
                  /\ RefRun(SubSeq(s, k + 1, Len(s)))}
    IN  IF ks = {} THEN 0 ELSE CHOOSE k \in ks : TRUE

\* 1: simple, 2: intronic, 3: UTR, 4: UTR-intronic, 0: none of the shapes.
RefShape(s) ==
    IF RefRun(s) THEN 1
    ELSE IF RefSignAt(s, 1) # 0 THEN 2
    ELSE IF s # <<>> /\ s[1] \in UtrSymbols /\ RefRun(Tail(s)) THEN 3
    ELSE IF s # <<>> /\ s[1] \in UtrSymbols /\ RefSignAt(s, 2) # 0 THEN 4
    ELSE 0

\* The number a digit run denotes.
RECURSIVE RefNum(_)
RefNum(s) ==
    IF s = <<>> THEN 0
    ELSE DigitValue(Head(s)) * 10 ^ (Len(s) - 1) + RefNum(Tail(s))

\* The signed offset after the sign token at place k.
RefOffset(s, k) ==
    LET n == RefNum(SubSeq(s, k + 1, Len(s)))
    IN  IF s[k] = "-" THEN 0 - n ELSE n

RefSide(s) == IF s[1] = "*" THEN "3p" ELSE "5p"

\* <<position, intronic_position, utr, utr_position>> of a string of the
\* grammar.
RefTuple(s) ==
    CASE RefShape(s) = 1 -> <<Some(RefNum(s)), None, None, None>>
      [] RefShape(s) = 2 ->
            LET k == RefSignAt(s, 1)
            IN  <<Some(RefNum(SubSeq(s, 1, k - 1))), Some(RefOffset(s, k)),
                  None, None>>
      [] RefShape(s) = 3 ->
            <<None, None, Some(RefSide(s)), Some(RefNum(Tail(s)))>>
      [] RefShape(s) = 4 ->
            LET k == RefSignAt(s, 2)
            IN  <<None, Some(RefOffset(s, k)), Some(RefSide(s)),
                  Some(RefNum(SubSeq(s, 2, k - 1)))>>

\* 0: 5' UTR, 1: not in a UTR, 2: 3' UTR, by the leading character.
Side(s) == IF s[1] = "-" THEN 0 ELSE IF s[1] = "*" THEN 2 ELSE 1

\* s is p, then the sign token, then a digit run.
IsOffsetOf(s, p, sign) ==
    /\ RefRun(p)
    /\ Len(s) > Len(p) + 1
    /\ SubSeq(s, 1, Len(p)) = p
    /\ s[Len(p) + 1] = sign
    /\ RefRun(SubSeq(s, Len(p) + 2, Len(s)))

\* utr_position of a UTR position, position of any other.
Primary(p) == IF p.utr # None THEN Val(p.utr_position) ELSE Val(p.position)

\* No later element of the list is less than an earlier one.
NoLaterLess(l) ==
    \A i \in 1..Len(l) : \A j \in (i + 1)..Len(l) : ~Truthy(lt(l[j], l[i]))

ExpectedStrings ==
    << <<"-", "3">>, <<"1", "0", "0", "-", "2">>, <<"1", "0", "0">>,
       <<"1", "0", "0", "+", "2">>, <<"*", "5">> >>

ExpectedOrder == [i \in 1..5 |-> VariantPosition(ExpectedStrings[i])]

---------------------------------------------------------------------------
\* Properties.

\* C1: for two constructed positions exactly one of self < other,
\* self == other, other < self holds.
C1_Trichotomy ==
    /\ (ret.op = "__lt__" /\ Truthy(ret.val))
          => (~Truthy(eq(self, other)) /\ ~Truthy(lt(other, self)))
    /\ (ret.op = "__lt__" /\ ~Truthy(ret.val))
          => (Truthy(eq(self, other)) # Truthy(lt(other, self)))
    /\ (ret.op = "__eq__" /\ Truthy(ret.val))
          => (~Truthy(lt(self, other)) /\ ~Truthy(lt(other, self)))

\* C2: at a non-UTR anchor p, VariantPosition("p-m") < VariantPosition("p")
\* and VariantPosition("p") < VariantPosition("p+n") are both true.
C2_BoundaryBetweenOffsets ==
    ret.op = "__lt__" =>
        /\ IsOffsetOf(self_str, other_str, "-") => ret.val = Return(TRUE)
        /\ IsOffsetOf(other_str, self_str, "+") => ret.val = Return(TRUE)

\* C3: when the two positions are on different sides (5' UTR, no UTR,
\* 3' UTR), self < other returns a boolean, true iff self is a 5' UTR
\* position or other is a 3' UTR position, that is iff
\* 5' UTR < no UTR < 3' UTR puts self first.
C3_UtrSidesOrdered ==
    (ret.op = "__lt__" /\ Side(self_str) # Side(other_str)) =>
        /\ ret.val = Return(Side(self_str) = 0 \/ Side(other_str) = 2)
        /\ ret.val = Return(Side(self_str) < Side(other_str))

C3_Witness ==
    /\ ret.op = "__lt__"
    /\ Side(self_str) = 0
    /\ Side(other_str) = 1
    /\ other.intronic_position # None
    /\ Val(self.utr_position) > Val(other.position)
    /\ ret.val = Return(TRUE)

\* C4: a full arrangement of the mixed set has no later element less than
\* an earlier one exactly when it is -3, 100-2, 100, 100+2, *5.
C4_OneSortedArrangement ==
    todo = {} => (NoLaterLess(lst) <=> lst = ExpectedOrder)

\* C5: the constructor returns a position for every string of the four
\* shapes and raises the invalid-position ValueError, carrying the string,
\* for every other string.
C5_TwoOutcomes ==
    self.kind # "unset" =>
        IF RefShape(self_str) # 0
        THEN self.kind = "position"
        ELSE self = Raised("ValueError",
                           <<"invalid variant position string", self_str>>)

\* C6: for every string of the four shapes the constructed fields are those
\* of the reference derivation, and is_utr / is_intronic / is_extended are
\* true exactly for shapes 3-4 / 2 and 4 / 2-4.
C6_FieldsMatchReference ==
    (self.kind # "unset" /\ RefShape(self_str) # 0) =>
        /\ self.kind = "position"
        /\ FieldTuple(self) = RefTuple(self_str)
        /\ ret.op = "is_utr" => ret.val = Return(RefShape(self_str) \in {3, 4})
        /\ ret.op = "is_intronic" => ret.val = Return(RefShape(self_str) \in {2, 4})
        /\ ret.op = "is_extended" => ret.val = Return(RefShape(self_str) \in {2, 3, 4})

\* C7: is_adjacent on a pair with an extended position does not return
\* normally with a value read as a boolean answer (True, False, or the
\* falsy None of a body that falls off its end).
C7_ExtendedAdjacencyIsLoud ==
    (ret.op = "is_adjacent" /\ (RefShape(self_str) # 1 \/ RefShape(other_str) # 1))
        => ret.val \notin {None, Return(TRUE), Return(FALSE)}

\* C8: for two simple positions is_adjacent returns true iff the positions
\* differ by exactly 1, false otherwise, whichever of the two is the
\* receiver.
C8_SimpleAdjacency ==
    (ret.op = "is_adjacent" /\ RefShape(self_str) = 1 /\ RefShape(other_str) = 1) =>
        /\ ret.val = Return(\/ RefNum(self_str) = RefNum(other_str) + 1
                            \/ RefNum(other_str) = RefNum(self_str) + 1)
        /\ ret.val = is_adjacent(other, self)

C8_Witness ==
    /\ ret.op = "is_adjacent"
    /\ RefShape(self_str) = 1
    /\ RefShape(other_str) = 1
    /\ Val(self.position) < Val(other.position)
    /\ ret.val = Return(TRUE)

\* C9: with equal utr, self < other is the numeric comparison of the
\* primary numbers when they differ; when they are equal it is false for
\* equal intronic_position values (both absent included), "other's is
\* negative" when self's is absent, "self's is negative" when other's is
\* absent, and the numeric comparison of the two otherwise.
C9_IntronicTieBreak ==
    (ret.op = "__lt__" /\ self.utr = other.utr) =>
        LET ia == self.intronic_position
            ib == other.intronic_position
        IN  ret.val = Return(
                IF Primary(self) # Primary(other)
                THEN Primary(self) < Primary(other)
                ELSE IF ia = ib THEN FALSE
                ELSE IF ia = None THEN Val(ib) < 0
                ELSE IF ib = None THEN Val(ia) < 0
                ELSE Val(ia) < Val(ib))

C9_Witness ==
    /\ ret.op = "__lt__"
    /\ self.utr = other.utr
    /\ Primary(self) = Primary(other)
    /\ self.intronic_position = None
    /\ other.intronic_position # None
    /\ Val(other.intronic_position) < 0
    /\ ret.val = Return(TRUE)

\* C10: the derived operators agree with __lt__ under argument swap:
\* self > other iff other < self, and self >= other iff other <= self.
C10_DerivedAgreeUnderSwap ==
    /\ ret.op = "__gt__" => (Truthy(ret.val) <=> Truthy(lt(other, self)))
    /\ ret.op = "__ge__" => (Truthy(ret.val) <=> Truthy(le(other, self)))

====
